---- MODULE Spec2Model ----
(***************************************************************************)
(* The integration JSON store (zustand + zundo temporal wrapper) and the   *)
(* Visualization component of kaoto-ui,                                    *)
(* src/src/store/integrationJsonStore.tsx.                                 *)
(*                                                                         *)
(* JavaScript objects have identity: a step object pushed into a new       *)
(* steps array is the same object the old array (and every history         *)
(* snapshot holding it) refers to.  Every step record therefore carries a  *)
(* field oid (the object's identity) and every integrationJson record a    *)
(* field jid; an assignment to a field of an object (step.UUID = ...,      *)
(* parameters[i].value = ...) is applied to every record with that oid,    *)
(* in every holder.  StripSteps/StripJson forget the identities: they give *)
(* the value lodash.isEqual compares.                                      *)
(*                                                                         *)
(* A step is [oid, name, UUID, parameters, branches]; parameters is the    *)
(* sequence of the parameters' values (the parameter's id is its position) *)
(* and branches a sequence of branches, a branch being the sequence of its *)
(* steps.  A UUID `${name}-${idx}` is the tuple <<name, idx>>; the UUID of *)
(* a step inside branch b of a step with UUID u is u \o <<b, name, idx>>;  *)
(* <<>> is an absent UUID.  A path to a step is <<i>> at the top level and *)
(* p \o <<b, k>> for step k of branch b of the step at path p (0-based).   *)
(***************************************************************************)
EXTENDS Integers, Sequences, FiniteSets, TLC

\* Bounds of the model.
MaxEdits == 3
MaxSteps == 3
MaxPending == 2
MaxUiEdits == 2
MaxHistoryEdits == 2

Values == {0, 1}
Layouts == {"LR", "TB"}
Dsls == {"KameletBinding", "Kamelet"}
ViewData == {<<>>, <<"view">>}

NoUuid == <<>>

MkStep(o, n, u, ps, bs) ==
  [oid |-> o, name |-> n, UUID |-> u, parameters |-> ps, branches |-> bs]

\* The step objects callers hand to the store (catalog steps, dropped steps,
\* import payloads).  Steps from outside carry their own, foreign UUIDs.
CallerSteps ==
  << MkStep(<<0, 0>>, "A", NoUuid, <<0>>, <<>>),
     MkStep(<<0, 1>>, "B", NoUuid, <<>>, <<>>),
     MkStep(<<0, 2>>, "C", <<"A", 0>>, <<>>, <<>>),
     MkStep(<<0, 3>>, "P", NoUuid, <<>>,
            << << MkStep(<<0, 3, 0, 0>>, "X", <<"A", 0>>, <<0>>, <<>>) >> >>) >>

Callers == DOMAIN CallerSteps

----------------------------------------------------------------------------
\* Sequence helpers (0-based indices are the code's, 1-based TLA+'s).

RECURSIVE Flatten(_)
Flatten(ss) == IF ss = <<>> THEN <<>> ELSE Head(ss) \o Flatten(Tail(ss))

\* Array.prototype.slice(0, k) and slice(k), for k >= 0.
SliceTo(s, k) == SubSeq(s, 1, IF k > Len(s) THEN Len(s) ELSE k)
SliceFrom(s, k) == SubSeq(s, k + 1, Len(s))

\* Array.prototype.filter((_, idx) => idx !== stepIdx)
FilterIdx(s, stepIdx) ==
  IF stepIdx >= 0 /\ stepIdx < Len(s)
    THEN SubSeq(s, 1, stepIdx) \o SubSeq(s, stepIdx + 2, Len(s))
    ELSE s

----------------------------------------------------------------------------
\* Values without object identity: what a deep comparison sees.

RECURSIVE StripSteps(_)
StripSteps(steps) ==
  [i \in 1..Len(steps) |->
     [name |-> steps[i].name, UUID |-> steps[i].UUID,
      parameters |-> steps[i].parameters,
      branches |-> [b \in 1..Len(steps[i].branches) |->
                      StripSteps(steps[i].branches[b])]]]

StripJson(j) == [dsl |-> j.dsl, steps |-> StripSteps(j.steps)]

\* Also without identifiers: the structure of a tree.
RECURSIVE Shape(_)
Shape(steps) ==
  [i \in 1..Len(steps) |->
     [name |-> steps[i].name, parameters |-> steps[i].parameters,
      branches |-> [b \in 1..Len(steps[i].branches) |->
                      Shape(steps[i].branches[b])]]]

\* lodash.isEqual on two partialized states {integrationJson}
isEqual(a, b) == StripJson(a.integrationJson) = StripJson(b.integrationJson)

\* All steps of a tree, at every level, parents before children.
RECURSIVE AllSteps(_)
AllSteps(steps) ==
  Flatten([i \in 1..Len(steps) |->
     <<steps[i]>> \o Flatten([b \in 1..Len(steps[i].branches) |->
                                AllSteps(steps[i].branches[b])])])

----------------------------------------------------------------------------
\* Identifier Assignment (spec 4.1): a new sequence of new step objects, each
\* with identifier f(name, position), unique over the whole tree.  o is the
\* identity prefix of the objects it creates.
RECURSIVE regenerateUuidsFrom(_, _, _)
regenerateUuidsFrom(steps, prefix, o) ==
  [i \in 1..Len(steps) |->
     LET s == steps[i]
         u == prefix \o <<s.name, i - 1>>
         oi == o \o <<i - 1>>
     IN  MkStep(oi, s.name, u, s.parameters,
                [b \in 1..Len(s.branches) |->
                   regenerateUuidsFrom(s.branches[b], u \o <<b - 1>>,
                                       oi \o <<b - 1>>)])]

regenerateUuids(steps, g) == regenerateUuidsFrom(steps, <<>>, <<g>>)

\* Nested-Step Indexer (spec 4.2): depth-first, one entry for every step
\* strictly inside a branch: its identifier, the identifier of the nearest
\* enclosing branch-owning step, and its path from the root.
RECURSIVE nestedEntries(_, _, _, _)
nestedEntries(steps, path, origin, inBranch) ==
  Flatten([i \in 1..Len(steps) |->
     LET s == steps[i]
         p == path \o <<i - 1>>
     IN  (IF inBranch
            THEN << [stepUuid |-> s.UUID, originStepUuid |-> origin,
                     pathToStep |-> p] >>
            ELSE <<>>)
         \o Flatten([b \in 1..Len(s.branches) |->
                       nestedEntries(s.branches[b], p \o <<b - 1>>, s.UUID, TRUE)])])

extractNestedSteps(steps) == nestedEntries(steps, <<>>, NoUuid, FALSE)

----------------------------------------------------------------------------
VARIABLES
  integrationJson,   \* store: [jid, dsl, steps]
  views,             \* store: views
  nestedSteps,       \* useNestedStepsStore: the published nested-step index
  pastStates,        \* zundo: snapshots {integrationJson} to undo to
  futureStates,      \* zundo: snapshots {integrationJson} to redo to
  callerSteps,       \* the step objects callers hold and pass in
  gen,               \* number of edits so far: the identity of the objects of the next
  selectedStep,      \* Visualization: useState selectedStep
  isPanelExpanded,   \* Visualization: useState isPanelExpanded
  previousIntegrationJson, \* Visualization: useRef(integrationJson)
  layout,            \* useVisualizationStore: layout
  previousLayout,    \* Visualization: useRef(layout)
  nodes,             \* useVisualizationStore: nodes and edges: the tree they were
                     \* built from, the UUIDs of the nodes in array order, and what
                     \* the handleDeleteStep they carry closes over
  pendingLayouts,    \* getLayoutedElements promises not yet settled
  pendingViews,      \* fetchViews promises not yet settled
  lastOp,            \* observer: the last operation, its arguments, whether it threw
  pre,               \* observer: the values before that operation
  hist,              \* observer: integrationJson's value after each change of it
  cur                \* observer: position in hist that undo/redo have moved to

storeVars == <<integrationJson, views, nestedSteps, pastStates, futureStates,
               callerSteps, gen>>
uiVars == <<selectedStep, isPanelExpanded, previousIntegrationJson, layout,
            previousLayout, nodes, pendingLayouts, pendingViews>>
obsVars == <<lastOp, pre, hist, cur>>
vars == <<storeVars, uiVars, obsVars>>

\* initialState.integrationJson (lines 31-36); jid 0 is that one object.
initialIntegrationJson == [jid |-> <<0>>, dsl |-> "KameletBinding", steps |-> <<>>]

\* useState initial value of selectedStep (lines 222-228)
emptyStep == MkStep(<<>>, "", NoUuid, <<>>, <<>>)

----------------------------------------------------------------------------
\* Assignments to fields of a step object, seen through every reference.

\* step.UUID = u for the object o
assignUuid(o, u) == [o |-> o, field |-> "UUID", value |-> u, index |-> 0]
\* step.parameters[k].value = v for the object o (k is 1-based here)
assignParam(o, k, v) == [o |-> o, field |-> "value", value |-> v, index |-> k]

RECURSIVE writeSteps(_, _)
writeSteps(steps, w) ==
  [i \in 1..Len(steps) |->
     LET s == steps[i]
         bs == [b \in 1..Len(s.branches) |-> writeSteps(s.branches[b], w)]
     IN  IF s.oid # w.o
           THEN [s EXCEPT !.branches = bs]
           ELSE IF w.field = "UUID"
             THEN [s EXCEPT !.UUID = w.value, !.branches = bs]
             ELSE [s EXCEPT !.parameters[w.index] = w.value, !.branches = bs]]

writeJson(j, w) == [j EXCEPT !.steps = writeSteps(j.steps, w)]
writeStates(states, w) ==
  [i \in 1..Len(states) |->
     [integrationJson |-> writeJson(states[i].integrationJson, w)]]
writeStep(s, w) == writeSteps(<<s>>, w)[1]
writeCallers(cs, w) == [c \in DOMAIN cs |-> writeStep(cs[c], w)]

\* no assignment
noWrite == assignUuid(<<-1>>, NoUuid)

----------------------------------------------------------------------------
\* zundo: temporal(config, {partialize, equality}).

partialize(j) == [integrationJson |-> j]

\* A wrapped set without the equality option: every set records.
recordedPastNoEquality(ps, pastJson, newJson) == Append(ps, partialize(pastJson))

\* The wrapped set: pastState = partialize(get()) is taken before set, then
\* recorded unless equality(pastState, partialize(get())) holds.
recordedPast(ps, pastJson, newJson) ==
  IF isEqual(partialize(pastJson), partialize(newJson))
    THEN ps ELSE Append(ps, partialize(pastJson))

\* A wrapped set that keeps the snapshots to redo to.
recordedFutureKept(fs, pastJson, newJson) == fs

\* The same set clears futureStates when it records.
recordedFuture(fs, pastJson, newJson) ==
  IF isEqual(partialize(pastJson), partialize(newJson)) THEN fs ELSE <<>>

----------------------------------------------------------------------------
\* Observers.

StripStates(states) ==
  [i \in 1..Len(states) |-> StripJson(states[i].integrationJson)]

Snapshot ==
  [json |-> StripJson(integrationJson),
   past |-> StripStates(pastStates),
   future |-> StripStates(futureStates),
   callers |-> StripSteps(callerSteps),
   reader |-> StripJson(previousIntegrationJson),
   nested |-> nestedSteps,
   views |-> views,
   nodes |-> nodes,
   selected |-> StripSteps(<<selectedStep>>)[1],
   before |-> <<>>]

\* buildNodesFromSteps(steps, layout, {handleDeleteStep}) (lines 304-306): one
\* node per step of the tree, each carrying the handleDeleteStep of the render
\* that built it, which closes over that render's nestedSteps and
\* isPanelExpanded (and its integrationJson, whose steps are those built from).
buildNodes(steps, nested, expanded) ==
  [steps |-> StripSteps(steps),
   flat |-> [k \in DOMAIN AllSteps(steps) |-> AllSteps(steps)[k].UUID],
   nested |-> nested, expanded |-> expanded]

noNodes == buildNodes(<<>>, <<>>, FALSE)

\* The pairs of operations whose composition is observed: for the second of a
\* pair that follows the first, pre.before is the first operation and the value
\* of integrationJson before it.
Followed == {<<"insertStep", "deleteStep">>, <<"saveConfig", "undo">>}

Before(op) ==
  IF <<lastOp.op, op>> \in Followed THEN <<lastOp, pre.json>> ELSE <<>>

SnapshotAt(op) == [Snapshot EXCEPT !.before = Before(op)]

\* What an operation named op with arguments args leaves for the observers,
\* newJson being the integrationJson it commits.
Observe(op, args, newJson) ==
  /\ lastOp' = [op |-> op, args |-> args, threw |-> FALSE]
  /\ pre' = SnapshotAt(op)
  /\ IF StripJson(newJson) # StripJson(integrationJson)
       THEN /\ hist' = Append(SubSeq(hist, 1, cur), StripJson(newJson))
            /\ cur' = cur + 1
       ELSE UNCHANGED <<hist, cur>>

Init ==
  /\ integrationJson = initialIntegrationJson
  /\ views = <<>>
  /\ nestedSteps = <<>>
  /\ pastStates = <<>>
  /\ futureStates = <<>>
  /\ callerSteps = CallerSteps
  /\ gen = 0
  /\ selectedStep = emptyStep
  /\ isPanelExpanded = FALSE
  /\ previousIntegrationJson = initialIntegrationJson
  /\ layout = "LR"
  /\ previousLayout = "LR"
  /\ nodes = noNodes
  /\ pendingLayouts = {noNodes}
  /\ pendingViews = 0
  /\ lastOp = [op |-> "init", args |-> <<>>, threw |-> FALSE]
  /\ pre = [json |-> StripJson(initialIntegrationJson), past |-> <<>>,
            future |-> <<>>, callers |-> StripSteps(CallerSteps),
            reader |-> StripJson(initialIntegrationJson), nested |-> <<>>,
            views |-> <<>>, nodes |-> noNodes,
            selected |-> StripSteps(<<emptyStep>>)[1], before |-> <<>>]
  /\ hist = <<StripJson(initialIntegrationJson)>>
  /\ cur = 1

----------------------------------------------------------------------------
\* The store's operations.  Each takes the caller's step object by reference
\* (c names it).

\* A set() through the temporal wrapper that commits newJson, after the
\* assignment w has been made.
CommitStore(newJson, w) ==
  LET pastJson == writeJson(integrationJson, w) IN
  /\ integrationJson' = newJson
  /\ pastStates' = recordedPast(writeStates(pastStates, w), pastJson, newJson)
  /\ futureStates' = recordedFuture(writeStates(futureStates, w), pastJson, newJson)
  /\ callerSteps' = writeCallers(callerSteps, w)
  /\ previousIntegrationJson' = writeJson(previousIntegrationJson, w)

\* The same, with the component's selectedStep seen through its reference.
Commit(newJson, w) ==
  /\ CommitStore(newJson, w)
  /\ selectedStep' = writeStep(selectedStep, w)

\* appendStep (lines 44-57)
appendStep(c) ==
  /\ gen < MaxEdits
  /\ Len(integrationJson.steps) < MaxSteps
  /\ LET newStep == callerSteps[c]
         w == assignUuid(newStep.oid, <<newStep.name, Len(integrationJson.steps)>>)
         newSteps == Append(writeSteps(integrationJson.steps, w), writeStep(newStep, w))
         newJson == [jid |-> <<gen + 1>>, dsl |-> integrationJson.dsl, steps |-> newSteps]
     IN  /\ Commit(newJson, w)
         /\ Observe("appendStep", <<c>>, newJson)
  /\ gen' = gen + 1
  /\ UNCHANGED <<views, nestedSteps>>
  /\ UNCHANGED <<isPanelExpanded, layout, previousLayout, nodes, pendingLayouts,
                 pendingViews>>

\* A splice in place of the assignment: newStep is put in before steps[idx].
arraySplice(steps, idx, newStep) ==
  IF idx < 0 THEN steps
  ELSE SliceTo(steps, idx) \o <<newStep>> \o SliceFrom(steps, idx)

\* steps[idx] = newStep on a copy of the array, for idx <= length: a negative
\* idx sets a property the later copies drop, idx = length extends the array.
arraySet(steps, idx, newStep) ==
  IF idx < 0 THEN steps
  ELSE IF idx < Len(steps) THEN [steps EXCEPT ![idx + 1] = newStep]
  ELSE Append(steps, newStep)

\* @kaoto/services insertStep (spec 4.3, insertAt): at position idx, later steps
\* shifted right; beyond the length it appends; a negative index is rejected.
services_insertStep(steps, insertIndex, newStep) ==
  SliceTo(steps, insertIndex) \o <<newStep>> \o SliceFrom(steps, insertIndex)

\* @kaoto/utils setDeepValue (spec 4.3, replaceInBranch): a copy of the tree in
\* which the step at path is newStep and every other step is as before.
RECURSIVE setDeepValue(_, _, _)
setDeepValue(steps, path, newStep) ==
  LET i == path[1] + 1 IN
  IF Len(path) = 1
    THEN [steps EXCEPT ![i] = newStep]
    ELSE [steps EXCEPT ![i].branches[path[2] + 1] =
            setDeepValue(steps[i].branches[path[2] + 1], SubSeq(path, 3, Len(path)),
                         newStep)]

\* The paths of the steps inside branches of a tree.
nestedPaths(steps) ==
  {extractNestedSteps(steps)[k].pathToStep : k \in DOMAIN extractNestedSteps(steps)}

\* useNestedStepsStore.getState().updateSteps (spec 4.2: publishes the index)
updateSteps(entries) == nestedSteps' = entries

\* What the store's operations leave alone in the component.
uiUntouched ==
  UNCHANGED <<isPanelExpanded, layout, previousLayout, nodes, pendingLayouts,
              pendingViews>>

\* The common end of the operations of lines 59-144: regenerateUuids,
\* updateSteps(extractNestedSteps(...)), set({...state.integrationJson, steps}),
\* the caller having made the assignment w before.
regenerateAndSetStore(op, args, steps, w) ==
  LET stepsWithNewUuids == regenerateUuids(steps, gen + 1)
      newJson == [jid |-> <<gen + 1>>, dsl |-> integrationJson.dsl,
                  steps |-> stepsWithNewUuids]
  IN  /\ updateSteps(extractNestedSteps(stepsWithNewUuids))
      /\ CommitStore(newJson, w)
      /\ Observe(op, args, newJson)
      /\ gen' = gen + 1
      /\ UNCHANGED views

regenerateAndSet(op, args, steps, w) ==
  /\ regenerateAndSetStore(op, args, steps, w)
  /\ selectedStep' = writeStep(selectedStep, w)

\* deleteIntegration (line 58): set(initialState)
deleteIntegration ==
  /\ gen < MaxEdits
  /\ Commit(initialIntegrationJson, noWrite)
  /\ views' = <<>>
  /\ Observe("deleteIntegration", <<>>, initialIntegrationJson)
  /\ gen' = gen + 1
  /\ UNCHANGED nestedSteps
  /\ uiUntouched

\* @kaoto/services filterStepWithBranches (spec 4.3, deleteInBranch): the step
\* without the nested steps, at any depth, whose UUID is excluded.
RECURSIVE filterSteps(_, _)
filterSteps(steps, excluded) ==
  LET keep == SelectSeq(steps, LAMBDA s : s.UUID # excluded)
  IN  [i \in 1..Len(keep) |->
         [keep[i] EXCEPT !.branches =
            [b \in 1..Len(keep[i].branches) |->
               filterSteps(keep[i].branches[b], excluded)]]]

filterStepWithBranches(step, excluded) ==
  [step EXCEPT !.branches =
     [b \in 1..Len(step.branches) |-> filterSteps(step.branches[b], excluded)]]

\* The identifiers of the steps inside the branches of a step.
nestedUuids(step) ==
  {extractNestedSteps(<<step>>)[k].stepUuid : k \in DOMAIN extractNestedSteps(<<step>>)}

\* deleteBranchStep (lines 59-74)
deleteBranchStep(newStep, originalStepIndex) ==
  /\ gen < MaxEdits
  /\ Len(arraySet(integrationJson.steps, originalStepIndex, newStep)) <= MaxSteps
  /\ regenerateAndSet("deleteBranchStep", <<originalStepIndex>>,
                      arraySet(integrationJson.steps, originalStepIndex, newStep),
                      noWrite)
  /\ uiUntouched

\* A deleteStep that removes the first step whatever the index.
deleteStepFirst(stepIdx) ==
  /\ gen < MaxEdits
  /\ regenerateAndSet("deleteStep", <<stepIdx>>,
                      FilterIdx(integrationJson.steps, 0), noWrite)
  /\ uiUntouched

\* deleteStep (lines 75-87)
deleteStep(stepIdx) ==
  /\ gen < MaxEdits
  /\ regenerateAndSet("deleteStep", <<stepIdx>>,
                      FilterIdx(integrationJson.steps, stepIdx), noWrite)
  /\ uiUntouched

\* deleteSteps (lines 88-95)
deleteSteps ==
  /\ gen < MaxEdits
  /\ LET newJson == [jid |-> <<gen + 1>>, dsl |-> integrationJson.dsl,
                     steps |-> <<>>]
     IN  /\ Commit(newJson, noWrite)
         /\ Observe("deleteSteps", <<>>, newJson)
  /\ gen' = gen + 1
  /\ UNCHANGED <<views, nestedSteps>>
  /\ uiUntouched

\* An operation that throws before it sets anything.
rejected(op, args) ==
  /\ lastOp' = [op |-> op, args |-> args, threw |-> TRUE]
  /\ pre' = SnapshotAt(op)
  /\ UNCHANGED <<storeVars, uiVars, hist, cur>>

\* An insertStep that is one place off: the new step goes in after position
\* insertIndex.
insertStepAfter(c, insertIndex) ==
  /\ gen < MaxEdits
  /\ Len(integrationJson.steps) < MaxSteps
  /\ IF insertIndex < 0
       THEN rejected("insertStep", <<c, insertIndex>>)
       ELSE /\ regenerateAndSet("insertStep", <<c, insertIndex>>,
                   services_insertStep(integrationJson.steps, insertIndex + 1,
                                       callerSteps[c]), noWrite)
            /\ uiUntouched

\* insertStep (lines 96-108)
insertStep(c, insertIndex) ==
  /\ gen < MaxEdits
  /\ Len(integrationJson.steps) < MaxSteps
  /\ IF insertIndex < 0
       THEN rejected("insertStep", <<c, insertIndex>>)
       ELSE /\ regenerateAndSet("insertStep", <<c, insertIndex>>,
                   services_insertStep(integrationJson.steps, insertIndex,
                                       callerSteps[c]), noWrite)
            /\ uiUntouched

\* A replaceBranchStep that overwrites the top-level ancestor of the addressed
\* step instead of the step itself.
replaceBranchStepAtRoot(newStep, pathToOldStep) ==
  /\ gen < MaxEdits
  /\ regenerateAndSet("replaceBranchStep",
                      <<pathToOldStep, StripSteps(<<newStep>>)[1]>>,
                      [integrationJson.steps EXCEPT ![pathToOldStep[1] + 1] = newStep],
                      noWrite)
  /\ uiUntouched

\* replaceBranchStep (lines 109-123)
replaceBranchStep(newStep, pathToOldStep) ==
  /\ gen < MaxEdits
  /\ regenerateAndSet("replaceBranchStep",
                      <<pathToOldStep, StripSteps(<<newStep>>)[1]>>,
                      setDeepValue(integrationJson.steps, pathToOldStep, newStep),
                      noWrite)
  /\ uiUntouched

\* replaceStep (lines 124-144); oldStepIndex is <<>> when omitted, else <<idx>>
replaceStep(newStep, oldStepIndex) ==
  /\ gen < MaxEdits
  /\ LET stepsCopy ==
           IF oldStepIndex = <<>>
             THEN <<newStep>> \o integrationJson.steps
             ELSE arraySet(integrationJson.steps, oldStepIndex[1], newStep)
     IN  /\ Len(stepsCopy) <= MaxSteps
         /\ regenerateAndSet("replaceStep",
                             <<oldStepIndex, StripSteps(<<newStep>>)[1]>>, stepsCopy,
                             noWrite)
  /\ uiUntouched

\* setViews (lines 145-147)
setViews(viewData) ==
  /\ views' = viewData
  /\ Commit(integrationJson, noWrite)
  /\ Observe("setViews", <<viewData>>, integrationJson)
  /\ UNCHANGED <<nestedSteps, gen>>
  /\ uiUntouched

\* The payloads updateIntegration is given: any of the fields, or nothing.
Payloads ==
  { [fields |-> {}, dsl |-> "", steps |-> <<>>],
    [fields |-> {"dsl"}, dsl |-> "Kamelet", steps |-> <<>>],
    [fields |-> {"steps"}, dsl |-> "", steps |-> <<>>],
    [fields |-> {"steps"}, dsl |-> "", steps |-> <<3, 4>>],
    [fields |-> {"dsl", "steps"}, dsl |-> "KameletBinding", steps |-> <<3, 3>>] }

\* updateIntegration (lines 148-155)
updateIntegration(newInt) ==
  /\ gen < MaxEdits
  /\ LET newDsl == IF "dsl" \in newInt.fields THEN newInt.dsl ELSE integrationJson.dsl
         newSteps == IF "steps" \in newInt.fields
                       THEN [k \in DOMAIN newInt.steps |-> callerSteps[newInt.steps[k]]]
                       ELSE integrationJson.steps
         uuidSteps == regenerateUuids(newSteps, gen + 1)
         newJson == [jid |-> <<gen + 1>>, dsl |-> newDsl, steps |-> uuidSteps]
     IN  /\ updateSteps(extractNestedSteps(uuidSteps))
         /\ Commit(newJson, noWrite)
         /\ Observe("updateIntegration", <<newInt>>, newJson)
  /\ gen' = gen + 1
  /\ UNCHANGED views
  /\ uiUntouched

----------------------------------------------------------------------------
\* zundo's undo and redo, reached through useTemporalIntegrationJsonStore
\* (line 176); they set the store without recording.

ObserveMove(op, to) ==
  /\ lastOp' = [op |-> op, args |-> <<>>, threw |-> FALSE]
  /\ pre' = SnapshotAt(op)
  /\ cur' = IF to >= 1 /\ to <= Len(hist) THEN to ELSE cur
  /\ UNCHANGED hist

undo ==
  /\ IF pastStates = <<>>
       THEN UNCHANGED <<integrationJson, pastStates, futureStates>>
       ELSE /\ integrationJson' = pastStates[Len(pastStates)].integrationJson
            /\ pastStates' = SubSeq(pastStates, 1, Len(pastStates) - 1)
            /\ futureStates' = Append(futureStates, partialize(integrationJson))
  /\ ObserveMove("undo", cur - 1)
  /\ UNCHANGED <<views, nestedSteps, callerSteps, gen, uiVars>>

\* A redo that moves although there is no later snapshot: the current value is
\* pushed onto the past.
redoPastTheEnd ==
  /\ IF futureStates = <<>>
       THEN /\ pastStates' = Append(pastStates, partialize(integrationJson))
            /\ UNCHANGED <<integrationJson, futureStates>>
       ELSE /\ integrationJson' = futureStates[Len(futureStates)].integrationJson
            /\ futureStates' = SubSeq(futureStates, 1, Len(futureStates) - 1)
            /\ pastStates' = Append(pastStates, partialize(integrationJson))
  /\ ObserveMove("redo", cur + 1)
  /\ UNCHANGED <<views, nestedSteps, callerSteps, gen, uiVars>>

redo ==
  /\ IF futureStates = <<>>
       THEN UNCHANGED <<integrationJson, pastStates, futureStates>>
       ELSE /\ integrationJson' = futureStates[Len(futureStates)].integrationJson
            /\ futureStates' = SubSeq(futureStates, 1, Len(futureStates) - 1)
            /\ pastStates' = Append(pastStates, partialize(integrationJson))
  /\ ObserveMove("redo", cur + 1)
  /\ UNCHANGED <<views, nestedSteps, callerSteps, gen, uiVars>>

----------------------------------------------------------------------------
\* The Visualization component.

\* The observers follow the store, the settling of layouts and the clicks on
\* nodes (ObserveLayout, with the layout or the node's UUID as argument); the
\* effects and the layout switch leave them alone.
ObserveUi == UNCHANGED obsVars

ObserveLayout(op, res) ==
  /\ lastOp' = [op |-> op, args |-> <<res>>, threw |-> FALSE]
  /\ pre' = SnapshotAt(op)
  /\ UNCHANGED <<hist, cur>>

\* @kaoto/services flattenSteps: the steps of all levels, the objects
\* themselves, a level before the next.
RECURSIVE flattenSteps(_)
flattenSteps(steps) ==
  LET children == Flatten([i \in 1..Len(steps) |-> Flatten(steps[i].branches)])
  IN  IF steps = <<>> THEN <<>> ELSE steps \o flattenSteps(children)

\* Array.prototype.indexOf / findIndex over the UUIDs (0-based, -1 if absent)
indexOfUuid(steps, uuid) ==
  IF \E i \in 1..Len(steps) : steps[i].UUID = uuid
    THEN (CHOOSE i \in 1..Len(steps) :
            /\ steps[i].UUID = uuid
            /\ \A j \in 1..(i - 1) : steps[j].UUID # uuid) - 1
    ELSE -1

\* @kaoto/services findStepIdxWithUUID: position in the top-level sequence
findStepIdxWithUUID(uuid, steps) == indexOfUuid(steps, uuid)

\* The identifiers of the rendered nodes (one node per step of the tree laid out)
nodeUuids == {nodes.flat[k] : k \in DOMAIN nodes.flat}

\* onNodeClick (lines 371-388) on the node of the step with this UUID
onNodeClick(uuid) ==
  /\ LET flatSteps == flattenSteps(integrationJson.steps)
         stepIdx == indexOfUuid(flatSteps, uuid)
     IN  selectedStep' = IF stepIdx # -1 THEN flatSteps[stepIdx + 1] ELSE selectedStep
  /\ isPanelExpanded' = TRUE
  /\ ObserveLayout("onNodeClick", uuid)
  /\ UNCHANGED <<storeVars, previousIntegrationJson, layout, previousLayout, nodes,
                 pendingLayouts, pendingViews>>

\* saveConfig (lines 398-422) with newValues = {key: value}, key the id of the
\* selected step's parameter at position paramIndex
saveConfig(paramIndex, value) ==
  /\ gen < MaxEdits
  /\ Len(selectedStep.parameters) > 0
  /\ paramIndex \in 1..Len(selectedStep.parameters)
  /\ LET w == assignParam(selectedStep.oid, paramIndex, value)
         newStep == writeStep(selectedStep, w)
         steps == writeSteps(integrationJson.steps, w)
         k == CHOOSE k \in 0..Len(nestedSteps) :
                /\ k > 0 => nestedSteps[k].stepUuid = newStep.UUID
                /\ \A j \in 1..(IF k = 0 THEN Len(nestedSteps) ELSE k - 1) :
                     nestedSteps[j].stepUuid # newStep.UUID
     IN  IF k > 0
           THEN /\ nestedSteps[k].pathToStep \in nestedPaths(steps)
                /\ regenerateAndSet("saveConfig", <<"replaceBranchStep", paramIndex, value>>,
                     setDeepValue(steps, nestedSteps[k].pathToStep, newStep), w)
           ELSE regenerateAndSet("saveConfig", <<"replaceStep", paramIndex, value>>,
                  arraySet(steps, findStepIdxWithUUID(newStep.UUID, steps), newStep), w)
  /\ UNCHANGED <<isPanelExpanded, layout, previousLayout, nodes, pendingLayouts,
                 pendingViews>>

\* useVisualizationStore deleteNode: the node at that position of the array goes
deleteNode(nodeIndex) == [nodes EXCEPT !.flat = FilterIdx(nodes.flat, nodeIndex)]

\* Array.prototype.find over the index: the position of the first entry for
\* this UUID, 0 when there is none.
findNested(nested, UUID) ==
  IF \E k \in 1..Len(nested) : nested[k].stepUuid = UUID
    THEN CHOOSE k \in 1..Len(nested) :
           /\ nested[k].stepUuid = UUID
           /\ \A j \in 1..(k - 1) : nested[j].stepUuid # UUID
    ELSE 0

\* handleDeleteStep (lines 320-348) as the node of the step with this UUID calls
\* it: integrationJson.steps, nestedSteps and isPanelExpanded are those of the
\* render that built the nodes, the store's operations work on the store.  When
\* the origin is not a top-level step, integrationJson.steps[-1] is undefined:
\* filterStepWithBranches(undefined, ...) either throws or gives undefined back,
\* and deleteBranchStep(undefined, -1) then commits the tree again.
handleDeleteStep(UUID, throws) ==
  /\ gen < MaxEdits
  /\ UUID # NoUuid
  /\ selectedStep' = emptyStep
  /\ isPanelExpanded' = IF nodes.expanded THEN FALSE ELSE isPanelExpanded
  /\ LET steps == nodes.steps
         k == findNested(nodes.nested, UUID)
         parentStepIdx == findStepIdxWithUUID(nodes.nested[k].originStepUuid, steps)
         stepsIndex == findStepIdxWithUUID(UUID, steps)
     IN  IF k > 0
           THEN /\ throws => parentStepIdx = -1
                /\ IF throws
                     THEN /\ lastOp' = [op |-> "handleDeleteStep", args |-> <<UUID>>,
                                        threw |-> TRUE]
                          /\ pre' = SnapshotAt("handleDeleteStep")
                          /\ UNCHANGED <<storeVars, previousIntegrationJson, hist, cur>>
                     ELSE regenerateAndSetStore("handleDeleteStep", <<UUID>>,
                            IF parentStepIdx = -1
                              THEN integrationJson.steps
                              ELSE arraySet(integrationJson.steps, parentStepIdx,
                                            filterStepWithBranches(steps[parentStepIdx + 1],
                                                                   UUID)),
                            noWrite)
                /\ UNCHANGED nodes
           ELSE /\ ~throws
                /\ nodes' = deleteNode(stepsIndex)
                /\ regenerateAndSetStore("handleDeleteStep", <<UUID>>,
                                         FilterIdx(integrationJson.steps, stepsIndex),
                                         noWrite)
  /\ UNCHANGED <<layout, previousLayout, pendingLayouts, pendingViews>>

\* useEffect on integrationJson (lines 261-278)
effectIntegrationJson ==
  /\ previousIntegrationJson.jid # integrationJson.jid
  /\ Cardinality(pendingLayouts) < MaxPending
  /\ pendingViews < MaxPending
  /\ pendingViews' = pendingViews + 1
  /\ pendingLayouts' = pendingLayouts \cup
       {buildNodes(integrationJson.steps, nestedSteps, isPanelExpanded)}
  /\ previousIntegrationJson' = integrationJson
  /\ ObserveUi
  /\ UNCHANGED <<storeVars, selectedStep, isPanelExpanded, layout, previousLayout,
                 nodes>>

\* useEffect on layout (lines 280-292)
effectLayout ==
  /\ previousLayout # layout
  /\ Cardinality(pendingLayouts) < MaxPending
  /\ pendingLayouts' = pendingLayouts \cup {nodes}
  /\ previousLayout' = layout
  /\ ObserveUi
  /\ UNCHANGED <<storeVars, selectedStep, isPanelExpanded, previousIntegrationJson,
                 layout, nodes, pendingViews>>

\* The layout mode of useVisualizationStore (line 238) is changed from outside.
setLayout(newLayout) ==
  /\ newLayout # layout
  /\ layout' = newLayout
  /\ ObserveUi
  /\ UNCHANGED <<storeVars, selectedStep, isPanelExpanded, previousIntegrationJson,
                 previousLayout, nodes, pendingLayouts, pendingViews>>

\* getLayoutedElements(...).then (lines 249-253, 270-274, 284-288)
layoutResolved(res) ==
  /\ res \in pendingLayouts
  /\ nodes' = res
  /\ pendingLayouts' = pendingLayouts \ {res}
  /\ ObserveLayout("layoutResolved", res)
  /\ UNCHANGED <<storeVars, selectedStep, isPanelExpanded, previousIntegrationJson,
                 layout, previousLayout, pendingViews>>

\* A catch that empties the rendered graph.
layoutRejectedClears(res) ==
  /\ res \in pendingLayouts
  /\ nodes' = noNodes
  /\ pendingLayouts' = pendingLayouts \ {res}
  /\ ObserveLayout("layoutRejected", res)
  /\ UNCHANGED <<storeVars, selectedStep, isPanelExpanded, previousIntegrationJson,
                 layout, previousLayout, pendingViews>>

\* getLayoutedElements(...).catch (lines 254, 275, 289): console.error
layoutRejected(res) ==
  /\ res \in pendingLayouts
  /\ pendingLayouts' = pendingLayouts \ {res}
  /\ ObserveLayout("layoutRejected", res)
  /\ UNCHANGED <<storeVars, selectedStep, isPanelExpanded, previousIntegrationJson,
                 layout, previousLayout, nodes, pendingViews>>

\* fetchViews(...).then (lines 264-266): setViews(views)
viewsResolved(viewData) ==
  /\ pendingViews > 0
  /\ pendingViews' = pendingViews - 1
  /\ views' = viewData
  /\ Commit(integrationJson, noWrite)
  /\ Observe("setViews", <<viewData>>, integrationJson)
  /\ UNCHANGED <<nestedSteps, gen>>
  /\ UNCHANGED <<isPanelExpanded, layout, previousLayout, nodes, pendingLayouts>>

\* The arguments callers give the operations.
Indices == -1..Len(integrationJson.steps)
OptIndices == {<<>>} \cup {<<k>> : k \in Indices}
FilteredParents(i) ==
  IF i >= 0 /\ i < Len(integrationJson.steps)
    THEN {filterStepWithBranches(integrationJson.steps[i + 1], u) :
            u \in nestedUuids(integrationJson.steps[i + 1])}
    ELSE {}

\* The store's mutators, with every argument.
Mutators ==
  \/ \E c \in Callers : appendStep(c)
  \/ deleteIntegration
  \/ \E i \in Indices :
       \E newStep \in FilteredParents(i) \cup {callerSteps[2]} :
         deleteBranchStep(newStep, i)
  \/ \E i \in Indices : deleteStep(i)
  \/ deleteSteps
  \/ \E c \in Callers, i \in -1..(Len(integrationJson.steps) + 1) : insertStep(c, i)
  \/ \E c \in Callers, p \in nestedPaths(integrationJson.steps) :
       replaceBranchStep(callerSteps[c], p)
  \/ \E c \in Callers, i \in OptIndices : replaceStep(callerSteps[c], i)
  \/ \E newInt \in Payloads : updateIntegration(newInt)

Next == Mutators

Spec == Init /\ [][Next]_vars

\* The store with its history: edits, setViews, undo and redo in any order.
NextHistory ==
  \/ gen < MaxHistoryEdits /\ Mutators
  \/ \E v \in ViewData : setViews(v)
  \/ undo
  \/ redo

SpecHistory == Init /\ [][NextHistory]_vars

\* React runs the effects of a render before it handles the next user event.
effectsFlushed ==
  /\ previousIntegrationJson.jid = integrationJson.jid
  /\ previousLayout = layout

\* The component at work: a user who appends, selects and configures steps and
\* switches the layout mode, while layouts and views come back in any order.
NextUI ==
  \/ \E c \in {1, 4} : effectsFlushed /\ gen < MaxUiEdits /\ appendStep(c)
  \/ \E uuid \in nodeUuids : effectsFlushed /\ onNodeClick(uuid)
  \/ \E k \in 1..Len(selectedStep.parameters), v \in Values :
       effectsFlushed /\ gen < MaxUiEdits /\ saveConfig(k, v)
  \/ \E l \in Layouts : effectsFlushed /\ setLayout(l)
  \/ effectIntegrationJson
  \/ effectLayout
  \/ \E res \in pendingLayouts : layoutResolved(res)
  \/ \E res \in pendingLayouts : layoutRejected(res)
  \/ \E v \in ViewData : viewsResolved(v)

SpecUI == Init /\ [][NextUI]_vars

\* Steps dropped onto the canvas and into branches, and deleted again from
\* their nodes.
NextDelete ==
  \/ \E c \in {1, 4}, i \in 0..Len(integrationJson.steps) :
       effectsFlushed /\ insertStep(c, i)
  \/ \E p \in nestedPaths(integrationJson.steps) :
       effectsFlushed /\ replaceBranchStep(callerSteps[4], p)
  \/ \E uuid \in nodeUuids, throws \in BOOLEAN :
       effectsFlushed /\ handleDeleteStep(uuid, throws)
  \/ effectIntegrationJson
  \/ \E res \in pendingLayouts : layoutResolved(res)
  \/ \E v \in ViewData : viewsResolved(v)

SpecDelete == Init /\ [][NextDelete]_vars

\* Steps dropped onto the canvas, selected and configured in the detail panel,
\* and the edits undone.
NextConfig ==
  \/ \E c \in {1, 4}, i \in 0..Len(integrationJson.steps) :
       effectsFlushed /\ gen < MaxUiEdits /\ insertStep(c, i)
  \/ \E uuid \in nodeUuids : effectsFlushed /\ onNodeClick(uuid)
  \/ \E k \in 1..Len(selectedStep.parameters), v \in Values :
       effectsFlushed /\ gen < MaxUiEdits /\ saveConfig(k, v)
  \/ effectsFlushed /\ undo
  \/ effectIntegrationJson
  \/ \E res \in pendingLayouts : layoutResolved(res)
  \/ \E v \in ViewData : viewsResolved(v)

SpecConfig == Init /\ [][NextConfig]_vars

----------------------------------------------------------------------------
\* Properties.

MutatorOps ==
  {"appendStep", "insertStep", "deleteStep", "deleteSteps", "deleteIntegration",
   "replaceStep", "replaceBranchStep", "deleteBranchStep", "updateIntegration"}

\* The UUIDs of a sequence of steps are pairwise distinct.
DistinctUuids(all) ==
  \A i, j \in 1..Len(all) : i # j => all[i].UUID # all[j].UUID

Names(steps) == [i \in 1..Len(steps) |-> steps[i].name]

\* The step at a path of a tree.
RECURSIVE StepAt(_, _)
StepAt(steps, path) ==
  IF Len(path) = 1
    THEN steps[path[1] + 1]
    ELSE StepAt(steps[path[1] + 1].branches[path[2] + 1], SubSeq(path, 3, Len(path)))

\* The paths of all steps of a tree, top-level ones included.
RECURSIVE PathsFrom(_, _)
PathsFrom(steps, prefix) ==
  UNION {{prefix \o <<i - 1>>} \cup
         UNION {PathsFrom(steps[i].branches[b], prefix \o <<i - 1, b - 1>>) :
                  b \in 1..Len(steps[i].branches)} : i \in 1..Len(steps)}

IsPrefix(p, q) == Len(p) <= Len(q) /\ SubSeq(q, 1, Len(p)) = p

\* C1: once a mutator has completed, the published nested-step index equals
\* the index derived from the committed tree (one entry for every step strictly
\* inside a branch, none for a top-level step).
C1_IndexMatchesTree ==
  lastOp.op \in MutatorOps =>
    nestedSteps = extractNestedSteps(integrationJson.steps)

\* C2: once a mutator has completed, the identifiers of all steps of the
\* committed tree, at every nesting level, are pairwise distinct.
C2_UniqueIdentifiers ==
  lastOp.op \in MutatorOps => DistinctUuids(AllSteps(integrationJson.steps))

\* C3: the rendered graph never ends up reflecting a superseded tree: when a
\* layout result has been applied and no layout is in flight or due any more,
\* the nodes are those of the tree committed last.
C3_OnlyLatestLayoutApplied ==
  (/\ lastOp.op = "layoutResolved"
   /\ pendingLayouts = {}
   /\ effectsFlushed)
  => nodes.steps = StripSteps(integrationJson.steps)

\* C4: no edit changes a tree committed before it, whether the history or a
\* reader holds it, and none modifies the step object the caller supplied.
C4_CommittedTreesImmutable ==
  lastOp.op \in MutatorOps \cup {"saveConfig"} =>
    /\ StripStates(pastStates) \in {pre.past, Append(pre.past, pre.json)}
    /\ StripStates(futureStates) \in {pre.future, <<>>}
    /\ StripJson(previousIntegrationJson) = pre.reader
    /\ StripSteps(callerSteps) = pre.callers

\* C5: a store update that leaves integrationJson deeply equal to its value
\* before the update, and every setViews, records no history entry.
C5_NoEntryWithoutChange ==
  (/\ lastOp.op \in MutatorOps \cup {"setViews"}
   /\ (lastOp.op = "setViews" \/ StripJson(integrationJson) = pre.json))
  => /\ Len(pastStates) = Len(pre.past)
     /\ Len(futureStates) = Len(pre.future)

C5_Witness ==
  /\ lastOp.op = "deleteStep"
  /\ pre.json.steps # <<>>
  /\ pre.past # <<>>
  /\ StripJson(integrationJson) = pre.json

\* C6: undo and redo move along the values integrationJson has had: after k
\* changes and j <= k undos it has the value it had after change k - j, and a
\* redo gives back the value the undo left.
C6_UndoRestoresEarlierValue ==
  lastOp.op \in {"undo", "redo"} => StripJson(integrationJson) = hist[cur]

\* C7: undo with no earlier snapshot and redo with no later snapshot change
\* neither integrationJson nor the past and future sequences.
C7_NoopAtTheEnds ==
  (\/ lastOp.op = "undo" /\ pre.past = <<>>
   \/ lastOp.op = "redo" /\ pre.future = <<>>)
  => /\ StripJson(integrationJson) = pre.json
     /\ StripStates(pastStates) = pre.past
     /\ StripStates(futureStates) = pre.future

C7_Witness ==
  /\ lastOp.op = "redo"
  /\ pre.future = <<>>
  /\ pre.past # <<>>
  /\ pre.json.steps # <<>>

\* C8: insertStep(s, i) with i >= 0 puts s at position min(i, length), the
\* steps before it and after it keeping their order; appendStep(A),
\* appendStep(B), insertStep(C, 1) gives [A, C, B] with three distinct
\* identifiers and an empty nested-step index.
C8_InsertShiftsRight ==
  (lastOp.op = "insertStep" /\ lastOp.args[2] >= 0) =>
    LET old == Shape(pre.json.steps)
        new == Shape(integrationJson.steps)
        i == IF lastOp.args[2] > Len(old) THEN Len(old) ELSE lastOp.args[2]
    IN  /\ Len(new) = Len(old) + 1
        /\ new[i + 1] = Shape(<<pre.callers[lastOp.args[1]]>>)[1]
        /\ \A k \in 1..Len(old) : new[IF k <= i THEN k ELSE k + 1] = old[k]
        /\ (Names(old) = <<"A", "B">> /\ lastOp.args = <<3, 1>>) =>
             /\ Names(new) = <<"A", "C", "B">>
             /\ DistinctUuids(integrationJson.steps)
             /\ nestedSteps = <<>>

C8_Witness ==
  /\ lastOp.op = "insertStep"
  /\ lastOp.args = <<3, 1>>
  /\ Names(pre.json.steps) = <<"A", "B">>
  /\ Names(integrationJson.steps) = <<"A", "C", "B">>

\* C9: replaceStep with an index in 0..length-1 keeps the length and changes the
\* structure of the top-level sequence at that index only, where the new step
\* is; with no index the new step is first and the old steps follow in order.
C9_ReplaceChangesOneSlot ==
  lastOp.op = "replaceStep" =>
    LET old == Shape(pre.json.steps)
        new == Shape(integrationJson.steps)
        idx == lastOp.args[1]
        newStep == Shape(<<lastOp.args[2]>>)[1]
    IN  /\ (idx # <<>> /\ idx[1] >= 0 /\ idx[1] < Len(old)) =>
             /\ Len(new) = Len(old)
             /\ new[idx[1] + 1] = newStep
             /\ \A k \in 1..Len(old) : k # idx[1] + 1 => new[k] = old[k]
        /\ idx = <<>> => new = <<newStep>> \o old

C9_Witness ==
  /\ lastOp.op = "replaceStep"
  /\ lastOp.args[1] = <<1>>
  /\ Len(pre.json.steps) = 3
  /\ Shape(pre.json.steps) # Shape(integrationJson.steps)

\* C10: replaceBranchStep(newStep, path) puts newStep at path and leaves every
\* step that is not on the path as it was; the steps along the path are new
\* objects, and the history still holds the old tree with the old step.
C10_ReplaceInBranchOnly ==
  lastOp.op = "replaceBranchStep" =>
    LET old == pre.json.steps
        new == integrationJson.steps
        path == lastOp.args[1]
        oldObjects == IF pastStates = <<>> THEN <<>>
                      ELSE AllSteps(pastStates[Len(pastStates)].integrationJson.steps)
    IN  /\ path \in PathsFrom(new, <<>>)
        /\ Shape(<<StepAt(new, path)>>) = Shape(<<lastOp.args[2]>>)
        /\ \A q \in PathsFrom(old, <<>>) :
             /\ (~IsPrefix(q, path) /\ ~IsPrefix(path, q)) =>
                  /\ q \in PathsFrom(new, <<>>)
                  /\ Shape(<<StepAt(new, q)>>) = Shape(<<StepAt(old, q)>>)
             /\ (IsPrefix(q, path) /\ q # path) =>
                  /\ StepAt(new, q).name = StepAt(old, q).name
                  /\ StepAt(new, q).parameters = StepAt(old, q).parameters
                  /\ Len(StepAt(new, q).branches) = Len(StepAt(old, q).branches)
                  /\ \A k \in 1..Len(oldObjects) : oldObjects[k].oid # StepAt(new, q).oid
        /\ \A q \in PathsFrom(new, <<>>) :
             ~IsPrefix(path, q) => q \in PathsFrom(old, <<>>)
        /\ StripStates(pastStates) \in {pre.past, Append(pre.past, pre.json)}

C10_Witness ==
  /\ lastOp.op = "replaceBranchStep"
  /\ Len(lastOp.args[1]) = 5
  /\ Len(integrationJson.steps) >= 2
  /\ StripJson(integrationJson) # pre.json

\* C11: insertStep with a negative index, and replaceStep with an index that is
\* negative or not below the length, throw, and leave integrationJson, the
\* nested-step index and the history as they were.
C11_InvalidIndexRejected ==
  (\/ lastOp.op = "insertStep" /\ lastOp.args[2] < 0
   \/ /\ lastOp.op = "replaceStep"
      /\ lastOp.args[1] # <<>>
      /\ (lastOp.args[1][1] < 0 \/ lastOp.args[1][1] >= Len(pre.json.steps)))
  => /\ lastOp.threw
     /\ StripJson(integrationJson) = pre.json
     /\ nestedSteps = pre.nested
     /\ StripStates(pastStates) = pre.past
     /\ StripStates(futureStates) = pre.future

\* C12: deleteStep(i) with an index the sequence has removes the step at i and
\* keeps the order of the others; with any other index it leaves the sequence
\* as it was and throws.
C12_DeleteStepByIndex ==
  lastOp.op = "deleteStep" =>
    LET old == Shape(pre.json.steps)
        new == Shape(integrationJson.steps)
        i == lastOp.args[1]
    IN  IF i >= 0 /\ i < Len(old)
          THEN /\ Len(new) = Len(old) - 1
               /\ \A k \in 1..Len(new) : new[k] = old[IF k <= i THEN k ELSE k + 1]
          ELSE /\ new = old
               /\ lastOp.threw

\* C13: after deleteIntegration and after deleteSteps the tree is empty,
\* integrationJson is the empty-integration default, and the nested-step index
\* and the views are empty.
C13_DeleteAllResets ==
  lastOp.op \in {"deleteIntegration", "deleteSteps"} =>
    /\ integrationJson.steps = <<>>
    /\ StripJson(integrationJson) = StripJson(initialIntegrationJson)
    /\ nestedSteps = <<>>
    /\ views = <<>>

\* The identifiers of the steps inside branches of a tree.
nestedUuidsOf(steps) ==
  {extractNestedSteps(steps)[k].stepUuid : k \in DOMAIN extractNestedSteps(steps)}

\* C14: handleDeleteStep(UUID) for a step that is inside a branch of the tree,
\* at any depth, leaves the tree without exactly that step: the top-level
\* sequence, the other branches and the other children are as before.
C14_NestedDeleteAtAnyDepth ==
  (lastOp.op = "handleDeleteStep" /\ lastOp.args[1] \in nestedUuidsOf(pre.json.steps))
  => /\ ~lastOp.threw
     /\ Shape(integrationJson.steps) =
          Shape(filterSteps(pre.json.steps, lastOp.args[1]))

\* C15: insertStep(S, i) with i in 0..n on a tree of length n, followed by
\* deleteStep(i), gives back the structure of the tree insertStep started from.
C15_InsertDeleteRoundTrip ==
  (/\ lastOp.op = "deleteStep"
   /\ pre.before # <<>>
   /\ pre.before[1].op = "insertStep"
   /\ ~pre.before[1].threw
   /\ pre.before[1].args[2] = lastOp.args[1]
   /\ lastOp.args[1] \in 0..Len(pre.before[2].steps))
  => Shape(integrationJson.steps) = Shape(pre.before[2].steps)

C15_Witness ==
  /\ lastOp.op = "deleteStep"
  /\ lastOp.args[1] = 1
  /\ pre.before # <<>>
  /\ pre.before[1].op = "insertStep"
  /\ pre.before[1].args = <<4, 1>>
  /\ Len(pre.before[2].steps) = 2
  /\ Len(pre.json.steps) = 3
  /\ Shape(integrationJson.steps) = Shape(pre.before[2].steps)

\* C16: a layout that rejects leaves the nodes and edges, the integration tree
\* and the history as they were, and nothing is thrown.
C16_RejectedLayoutKeepsGraph ==
  lastOp.op = "layoutRejected" =>
    /\ ~lastOp.threw
    /\ nodes = pre.nodes
    /\ StripJson(integrationJson) = pre.json
    /\ StripStates(pastStates) = pre.past
    /\ StripStates(futureStates) = pre.future

C16_Witness ==
  /\ lastOp.op = "layoutRejected"
  /\ nodes.steps # <<>>
  /\ lastOp.args[1].steps # nodes.steps
  /\ pastStates # <<>>

\* C17: after a click on a node whose identifier no step of the current tree
\* has, the selected step is the empty step.
C17_UnresolvableClickResetsSelection ==
  (/\ lastOp.op = "onNodeClick"
   /\ indexOfUuid(flattenSteps(integrationJson.steps), lastOp.args[1]) = -1)
  => selectedStep = emptyStep

\* C18: an edit that changes the tree leaves no snapshot to redo to, whatever
\* undos came before it.
C18_EditClearsRedo ==
  (lastOp.op \in MutatorOps /\ StripJson(integrationJson) # pre.json)
  => futureStates = <<>>

C18_Witness ==
  /\ lastOp.op \in MutatorOps
  /\ StripJson(integrationJson) # pre.json
  /\ pre.future # <<>>
  /\ futureStates = <<>>
  /\ pastStates # <<>>

\* C19: after an undo or a redo the published nested-step index is the index
\* of the tree now in the store; stated for an undo or redo that starts with
\* the index matching the tree, so that it is the move that is judged.
C19_IndexFollowsUndoRedo ==
  (/\ lastOp.op \in {"undo", "redo"}
   /\ pre.nested = extractNestedSteps(pre.json.steps))
  => nestedSteps = extractNestedSteps(integrationJson.steps)

\* C20: a saveConfig that gives a parameter of the selected step a different
\* value adds exactly one entry to the history, the tree before it, and an undo
\* right after a saveConfig that changed the tree restores the tree before it.
C20_ParameterEditUndoable ==
  /\ (/\ lastOp.op = "saveConfig"
      /\ pre.selected.parameters[lastOp.args[2]] # lastOp.args[3])
     => /\ StripStates(pastStates) = Append(pre.past, pre.json)
  /\ (/\ lastOp.op = "undo"
      /\ pre.before # <<>>
      /\ pre.before[1].op = "saveConfig"
      /\ pre.before[2] # pre.json)
     => StripJson(integrationJson) = pre.before[2]

====
